---- MODULE Spec2Model ----
(***************************************************************************)
(* Model of predubuddy's record store (utils/data_manager.py) and grade    *)
(* calculator (utils/calculations.py).                                     *)
(*                                                                         *)
(* A Python dict is a TLA+ record (a function from its keys), a Python     *)
(* list a sequence (Python index i is position i + 1), st.session_state a  *)
(* function whose DOMAIN is the set of keys that are set.                  *)
(***************************************************************************)
EXTENDS Integers, Sequences, FiniteSets, TLC

VARIABLES
    session_state,  \* st.session_state: key -> value, for the keys that are set
    call,           \* the function of the calculator that is called ("start": none)
    args,           \* the arguments of that call
    result          \* what that call returned or raised (NoResult: not yet)

vars == <<session_state, call, args, result>>

-----------------------------------------------------------------------------
(* Bounds of the model.                                                    *)

MaxCourses == 7
MaxCarryMarks == 1
MaxAssignments == 2
\* the calculator's inputs: the longest list of carry marks and of assignments,
\* and the largest percentage, counted in halves of a point
MaxCalcMarks == 3
MaxCalcAssignments == 4
MaxHalfPoints == 210

-----------------------------------------------------------------------------
(* Python values.                                                          *)

\* dict.get(key) of a missing key; never equal to a course code
None == "<None>"

Get(d, k) == IF k \in DOMAIN d THEN d[k] ELSE None

\* no call has returned yet
NoResult == [kind |-> "none", n |-> 0, d |-> 1, s |-> ""]

\* del lst[index], for 0 <= index < len(lst)
DelAt(lst, index) ==
    [j \in 1..(Len(lst) - 1) |-> IF j <= index THEN lst[j] ELSE lst[j + 1]]

\* as WithoutCode, but stopping at the first record of the course
RECURSIVE WithoutCode_FirstOnly(_, _)
WithoutCode_FirstOnly(lst, course_code) ==
    IF lst = <<>> THEN <<>>
    ELSE IF Get(Head(lst), "course_code") # course_code
         THEN <<Head(lst)>> \o WithoutCode_FirstOnly(Tail(lst), course_code)
         ELSE Tail(lst)

\* [x for x in lst if x.get('course_code') != course_code]
RECURSIVE WithoutCode(_, _)
WithoutCode(lst, course_code) ==
    IF lst = <<>> THEN <<>>
    ELSE IF Get(Head(lst), "course_code") # course_code
         THEN <<Head(lst)>> \o WithoutCode(Tail(lst), course_code)
         ELSE WithoutCode(Tail(lst), course_code)

-----------------------------------------------------------------------------
(* utils/data_manager.py                                                   *)

get_default_courses ==
    << [code |-> "BSD 1323", name |-> "Storytelling & Data Visualization", carry_weight |-> 60, exam_weight |-> 40],
       [code |-> "BSD 2143", name |-> "Operational Research", carry_weight |-> 60, exam_weight |-> 40],
       [code |-> "BUM 2413", name |-> "Applied Statistics", carry_weight |-> 60, exam_weight |-> 40],
       [code |-> "BUM 2123", name |-> "Applied Calculus", carry_weight |-> 60, exam_weight |-> 40],
       [code |-> "BCU 1023", name |-> "Programming Technique", carry_weight |-> 60, exam_weight |-> 40],
       [code |-> "ULS 1312", name |-> "Spanish A1", carry_weight |-> 60, exam_weight |-> 40],
       [code |-> "UHE 3032", name |-> "Introduction to Human Behaviour", carry_weight |-> 60, exam_weight |-> 40] >>

DefaultThemeColor == "#1f77b4"

\* the value each key gets when initialize_session_state finds it missing
InitialValue(key) ==
    CASE key = "courses" -> get_default_courses
      [] key = "carry_marks" -> <<>>
      [] key = "final_exams" -> <<>>
      [] key = "assignments" -> <<>>
      [] key = "theme_color" -> DefaultThemeColor

SessionKeys == {"courses", "carry_marks", "final_exams", "assignments", "theme_color"}

\* as Initialized, but testing the course list for emptiness instead of the key
Initialized_IfEmpty(ss) ==
    [key \in (DOMAIN ss) \cup SessionKeys |->
        IF key \in DOMAIN ss /\ ~(key = "courses" /\ ss[key] = <<>>)
        THEN ss[key] ELSE InitialValue(key)]

\* the session state left by initialize_session_state: a key that is set keeps
\* its value, a key that is missing gets its initial value
Initialized(ss) ==
    [key \in (DOMAIN ss) \cup SessionKeys |->
        IF key \in DOMAIN ss THEN ss[key] ELSE InitialValue(key)]

\* st.session_state.<key> raises AttributeError until the state is initialized;
\* the store's operations are called on an initialized session
IsInitialized == SessionKeys \subseteq DOMAIN session_state

\* the inputs of the model ------------------------------------------------

\* a course with the code of the first default course and other details: a new
\* course once that one is deleted, a second course of that code while it is there
CourseInputs ==
    { [code |-> "BSD 1323", name |-> "Data Storytelling", carry_weight |-> 50, exam_weight |-> 50] }

CarryInputs ==
    { [course_code |-> "BSD 1323", element_type |-> "Quiz", element_name |-> "Quiz 1",
       earned |-> 8, max_possible |-> 10, weight_percentage |-> 10],
      [course_code |-> "UHE 3032", element_type |-> "Lab", element_name |-> "Lab 1",
       earned |-> 18, max_possible |-> 20, weight_percentage |-> 20, final_contribution |-> 18] }

AssignmentInputs ==
    { [title |-> "Report", course_code |-> "BSD 1323", type |-> "Assignment",
       due_date |-> "2025-01-20", status |-> "pending", description |-> ""],
      [title |-> "Worksheet", course_code |-> "UHE 3032", type |-> "Assignment",
       due_date |-> "2025-01-27", status |-> "pending", description |-> ""] }

Statuses == {"pending", "completed"}

\* datetime.now().strftime("%Y-%m-%d")
Dates == {"2025-01-15"}

\* the indices the callers of the model pass for a list of n elements: its first
\* and its last element, and out of range on either side
Indices(n) == {-1, 0, n - 1, n}

\* len(st.session_state.<key>), 0 while the key is not set
LenOf(key) == IF key \in DOMAIN session_state THEN Len(session_state[key]) ELSE 0

\* the operations: what each leaves in st.session_state (ss), then the action

StateAfter_initialize_session_state(ss) == Initialized(ss)

initialize_session_state ==
    /\ session_state' = StateAfter_initialize_session_state(session_state)
    /\ UNCHANGED <<call, args, result>>

StateAfter_add_course(ss, course_data) ==
    [ss EXCEPT !.courses = Append(@, course_data)]

add_course(course_data) ==
    /\ IsInitialized
    /\ Len(session_state.courses) < MaxCourses
    /\ session_state' = StateAfter_add_course(session_state, course_data)
    /\ UNCHANGED <<call, args, result>>

StateAfter_update_course(ss, index, course_data) ==
    IF 0 <= index /\ index < Len(ss.courses)
    THEN [ss EXCEPT !.courses[index + 1] = course_data]
    ELSE ss

update_course(index, course_data) ==
    /\ IsInitialized
    /\ session_state' = StateAfter_update_course(session_state, index, course_data)
    /\ UNCHANGED <<call, args, result>>

\* as StateAfter_delete_course, but testing only index < len: a negative index
\* then counts from the end of the list, as Python's indexing does
StateAfter_delete_course_NoLowerBound(ss, index) ==
    LET pos == IF index < 0 THEN Len(ss.courses) + index ELSE index
    IN IF index < Len(ss.courses) /\ 0 <= pos
       THEN LET course_code == ss.courses[pos + 1].code
            IN [ss EXCEPT
                   !.carry_marks = WithoutCode(@, course_code),
                   !.assignments = WithoutCode(@, course_code),
                   !.final_exams = WithoutCode(@, course_code),
                   !.courses = DelAt(@, pos)]
       ELSE ss

\* as StateAfter_delete_course, but leaving the assignments of the course
StateAfter_delete_course_KeepAssignments(ss, index) ==
    IF 0 <= index /\ index < Len(ss.courses)
    THEN LET course_code == ss.courses[index + 1].code
         IN [ss EXCEPT
                !.carry_marks = WithoutCode(@, course_code),
                !.final_exams = WithoutCode(@, course_code),
                !.courses = DelAt(@, index)]
    ELSE ss

StateAfter_delete_course(ss, index) ==
    IF 0 <= index /\ index < Len(ss.courses)
    THEN LET course_code == ss.courses[index + 1].code
         IN [ss EXCEPT
                !.carry_marks = WithoutCode(@, course_code),
                !.assignments = WithoutCode(@, course_code),
                !.final_exams = WithoutCode(@, course_code),
                !.courses = DelAt(@, index)]
    ELSE ss

delete_course(index) ==
    /\ IsInitialized
    /\ session_state' = StateAfter_delete_course(session_state, index)
    /\ UNCHANGED <<call, args, result>>

StateAfter_add_carry_mark(ss, carry_data, today) ==
    LET stamped == [k \in (DOMAIN carry_data) \cup {"date_added"} |->
                       IF k = "date_added" THEN today ELSE carry_data[k]]
    IN [ss EXCEPT !.carry_marks = Append(@, stamped)]

add_carry_mark(carry_data, today) ==
    /\ IsInitialized
    /\ Len(session_state.carry_marks) < MaxCarryMarks
    /\ session_state' = StateAfter_add_carry_mark(session_state, carry_data, today)
    /\ UNCHANGED <<call, args, result>>

StateAfter_add_assignment(ss, assignment_data) ==
    [ss EXCEPT !.assignments = Append(@, assignment_data)]

add_assignment(assignment_data) ==
    /\ IsInitialized
    /\ Len(session_state.assignments) < MaxAssignments
    /\ session_state' = StateAfter_add_assignment(session_state, assignment_data)
    /\ UNCHANGED <<call, args, result>>

StateAfter_update_assignment_status(ss, index, new_status) ==
    IF 0 <= index /\ index < Len(ss.assignments)
    THEN [ss EXCEPT !.assignments[index + 1] =
             [k \in (DOMAIN @) \cup {"status"} |->
                 IF k = "status" THEN new_status ELSE @[k]]]
    ELSE ss

update_assignment_status(index, new_status) ==
    /\ IsInitialized
    /\ session_state' = StateAfter_update_assignment_status(session_state, index, new_status)
    /\ UNCHANGED <<call, args, result>>

\* as StateAfter_delete_assignment, but removing the last assignment (list.pop())
StateAfter_delete_assignment_Pop(ss, index) ==
    IF 0 <= index /\ index < Len(ss.assignments)
    THEN [ss EXCEPT !.assignments = DelAt(@, Len(@) - 1)]
    ELSE ss

StateAfter_delete_assignment(ss, index) ==
    IF 0 <= index /\ index < Len(ss.assignments)
    THEN [ss EXCEPT !.assignments = DelAt(@, index)]
    ELSE ss

delete_assignment(index) ==
    /\ IsInitialized
    /\ session_state' = StateAfter_delete_assignment(session_state, index)
    /\ UNCHANGED <<call, args, result>>

-----------------------------------------------------------------------------
(* The record store over a session.                                        *)

Init ==
    /\ session_state = [key \in {} |-> <<>>]
    /\ call = "start"
    /\ args = <<>>
    /\ result = NoResult

Next ==
    \/ initialize_session_state
    \/ \E course_data \in CourseInputs : add_course(course_data)
    \/ \E index \in Indices(LenOf("courses")), course_data \in CourseInputs :
          update_course(index, course_data)
    \/ \E index \in Indices(LenOf("courses")) : delete_course(index)
    \/ \E carry_data \in CarryInputs, today \in Dates : add_carry_mark(carry_data, today)
    \/ \E assignment_data \in AssignmentInputs : add_assignment(assignment_data)
    \/ \E index \in Indices(LenOf("assignments")), new_status \in Statuses :
          update_assignment_status(index, new_status)
    \/ \E index \in Indices(LenOf("assignments")) : delete_assignment(index)

Spec == Init /\ [][Next]_vars

-----------------------------------------------------------------------------
(* Python numbers: exact fractions n/d in lowest terms, d > 0.  The         *)
(* calculator's arithmetic is modelled exactly, without the rounding of     *)
(* floating point.                                                          *)

Abs(x) == IF x < 0 THEN -x ELSE x

RECURSIVE GCD(_, _)
GCD(a, b) == IF b = 0 THEN a ELSE GCD(b, a % b)

Frac(n, d) ==
    LET g == GCD(Abs(n), Abs(d))
        sign == IF d < 0 THEN -1 ELSE 1
    IN [n |-> sign * (n \div g), d |-> sign * (d \div g)]

Number(k) == [n |-> k, d |-> 1]

Add(a, b) == Frac(a.n * b.d + b.n * a.d, a.d * b.d)
Sub(a, b) == Frac(a.n * b.d - b.n * a.d, a.d * b.d)
Mul(a, b) == Frac(a.n * b.n, a.d * b.d)
\* a / b, for b != 0
Div(a, b) == Frac(a.n * b.d, a.d * b.n)
GreaterEq(a, b) == a.n * b.d >= b.n * a.d
\* max(a, b)
Max(a, b) == IF GreaterEq(b, a) /\ a # b THEN b ELSE a

\* what a call returns: a number, a string, or the exception it raises
Returns(q) == [kind |-> "number", n |-> q.n, d |-> q.d, s |-> ""]
ReturnsStr(str) == [kind |-> "str", n |-> 0, d |-> 1, s |-> str]
Raises(exception) == [kind |-> "raise", n |-> 0, d |-> 1, s |-> exception]
ValueOf(res) == [n |-> res.n, d |-> res.d]

-----------------------------------------------------------------------------
(* pandas: a DataFrame is its set of columns and its list of rows; a row    *)
(* built from a dict holds NaN in every column that is no key of the dict.  *)

\* pd.DataFrame(records): the columns are the keys of all the records
DataFrame(records) ==
    [columns |-> UNION {DOMAIN records[i] : i \in 1..Len(records)}, rows |-> records]

\* pd.DataFrame(columns=[...])
EmptyDataFrame(columns) == [columns |-> columns, rows |-> <<>>]

\* df.empty
IsEmpty(df) == df.rows = <<>> \/ df.columns = {}

\* df[df[column] == value], for a column of df: NaN equals no value
Where(df, column, value) ==
    [columns |-> df.columns,
     rows |-> SelectSeq(df.rows, LAMBDA row : column \in DOMAIN row /\ row[column] = value)]

\* df[column].sum(), for a column of df: NaN is skipped, and the sum of no value is 0
RECURSIVE SumOfRows(_, _)
SumOfRows(rows, column) ==
    IF rows = <<>> THEN 0
    ELSE (IF column \in DOMAIN Head(rows) THEN Head(rows)[column] ELSE 0)
         + SumOfRows(Tail(rows), column)

Sum(df, column) == SumOfRows(df.rows, column)

get_courses_df(courses) == DataFrame(courses)

CarryMarkColumns ==
    {"course_code", "element_type", "element_name", "earned", "max_possible",
     "weight_percentage", "final_contribution", "date_added"}

get_carry_marks_df(carry_marks) ==
    IF carry_marks # <<>> THEN DataFrame(carry_marks) ELSE EmptyDataFrame(CarryMarkColumns)

AssignmentColumns == {"title", "course_code", "type", "due_date", "status", "description"}

get_assignments_df(assignments) ==
    IF assignments # <<>> THEN DataFrame(assignments) ELSE EmptyDataFrame(AssignmentColumns)

-----------------------------------------------------------------------------
(* utils/calculations.py                                                   *)

\* as calculate_carry_percentage, but summing over the entries of every course
calculate_carry_percentage_AllCourses(course_code, carry_marks_df) ==
    IF IsEmpty(carry_marks_df) THEN Returns(Number(0))
    ELSE IF "course_code" \notin carry_marks_df.columns THEN Raises("KeyError")
    ELSE LET course_marks == carry_marks_df
         IN IF IsEmpty(course_marks) THEN Returns(Number(0))
            ELSE IF {"earned", "max_possible"} \subseteq course_marks.columns
            THEN LET total_earned == Sum(course_marks, "earned")
                     total_max == Sum(course_marks, "max_possible")
                 IN IF total_max = 0 THEN Returns(Number(0))
                    ELSE Returns(Mul(Div(Number(total_earned), Number(total_max)), Number(100)))
            ELSE Raises("KeyError")

calculate_carry_percentage(course_code, carry_marks_df) ==
    IF IsEmpty(carry_marks_df) THEN Returns(Number(0))
    ELSE IF "course_code" \notin carry_marks_df.columns THEN Raises("KeyError")
    ELSE LET course_marks == Where(carry_marks_df, "course_code", course_code)
         IN IF IsEmpty(course_marks) THEN Returns(Number(0))
            ELSE IF {"earned", "max_possible"} \subseteq course_marks.columns
            THEN LET total_earned == Sum(course_marks, "earned")
                     total_max == Sum(course_marks, "max_possible")
                 IN IF total_max = 0 THEN Returns(Number(0))
                    ELSE Returns(Mul(Div(Number(total_earned), Number(total_max)), Number(100)))
            ELSE Raises("KeyError")

\* as calculate_final_exam_requirement, but returning the requirement unclamped
calculate_final_exam_requirement_NoClamp(target_grade, carry_percentage, carry_weight, exam_weight) ==
    IF exam_weight = Number(0) THEN Returns(Number(0))
    ELSE LET carry_contribution ==
                 Mul(Mul(Div(carry_percentage, Number(100)), Div(carry_weight, Number(100))),
                     Number(100))
             required_exam_contribution == Sub(target_grade, carry_contribution)
             required_exam_percentage ==
                 Mul(Div(required_exam_contribution, exam_weight), Number(100))
         IN Returns(required_exam_percentage)

calculate_final_exam_requirement(target_grade, carry_percentage, carry_weight, exam_weight) ==
    IF exam_weight = Number(0) THEN Returns(Number(0))
    ELSE LET carry_contribution ==
                 Mul(Mul(Div(carry_percentage, Number(100)), Div(carry_weight, Number(100))),
                     Number(100))
             required_exam_contribution == Sub(target_grade, carry_contribution)
             required_exam_percentage ==
                 Mul(Div(required_exam_contribution, exam_weight), Number(100))
         IN Returns(Max(Number(0), required_exam_percentage))

\* as calculate_current_grade, but summing the contributions only when every
\* entry of the course has one
calculate_current_grade_AllHaveField(course_code, carry_marks_df, courses_df) ==
    IF "code" \notin courses_df.columns THEN Raises("KeyError")
    ELSE LET course_info == Where(courses_df, "code", course_code)
         IN IF IsEmpty(course_info) THEN Returns(Number(0))
            ELSE IF "course_code" \notin carry_marks_df.columns THEN Raises("KeyError")
            ELSE LET course_marks == Where(carry_marks_df, "course_code", course_code)
                 IN IF IsEmpty(course_marks) THEN Returns(Number(0))
                    ELSE IF \A i \in 1..Len(course_marks.rows) :
                                "final_contribution" \in DOMAIN course_marks.rows[i]
                    THEN Returns(Number(Sum(course_marks, "final_contribution")))
                    ELSE IF "carry_weight" \notin DOMAIN course_info.rows[1]
                    THEN Raises("KeyError")
                    ELSE LET carry_weight == course_info.rows[1].carry_weight
                             carry_percentage ==
                                 calculate_carry_percentage(course_code, carry_marks_df)
                         IN IF carry_percentage.kind = "raise" THEN carry_percentage
                            ELSE Returns(Mul(Div(ValueOf(carry_percentage), Number(100)),
                                             Number(carry_weight)))

calculate_current_grade(course_code, carry_marks_df, courses_df) ==
    IF "code" \notin courses_df.columns THEN Raises("KeyError")
    ELSE LET course_info == Where(courses_df, "code", course_code)
         IN IF IsEmpty(course_info) THEN Returns(Number(0))
            ELSE IF "course_code" \notin carry_marks_df.columns THEN Raises("KeyError")
            ELSE LET course_marks == Where(carry_marks_df, "course_code", course_code)
                 IN IF IsEmpty(course_marks) THEN Returns(Number(0))
                    ELSE IF "final_contribution" \in course_marks.columns
                    THEN Returns(Number(Sum(course_marks, "final_contribution")))
                    ELSE IF "carry_weight" \notin DOMAIN course_info.rows[1]
                    THEN Raises("KeyError")
                    ELSE LET carry_weight == course_info.rows[1].carry_weight
                             carry_percentage ==
                                 calculate_carry_percentage(course_code, carry_marks_df)
                         IN IF carry_percentage.kind = "raise" THEN carry_percentage
                            ELSE Returns(Mul(Div(ValueOf(carry_percentage), Number(100)),
                                             Number(carry_weight)))

\* as get_grade_letter, but with the boundary 85 open
get_grade_letter_Open85(percentage) ==
    IF GreaterEq(percentage, Number(90)) THEN ReturnsStr("A+")
    ELSE IF GreaterEq(percentage, Number(85)) /\ percentage # Number(85) THEN ReturnsStr("A")
    ELSE IF GreaterEq(percentage, Number(80)) THEN ReturnsStr("A-")
    ELSE IF GreaterEq(percentage, Number(75)) THEN ReturnsStr("B+")
    ELSE IF GreaterEq(percentage, Number(70)) THEN ReturnsStr("B")
    ELSE IF GreaterEq(percentage, Number(65)) THEN ReturnsStr("B-")
    ELSE IF GreaterEq(percentage, Number(60)) THEN ReturnsStr("C+")
    ELSE IF GreaterEq(percentage, Number(55)) THEN ReturnsStr("C")
    ELSE IF GreaterEq(percentage, Number(50)) THEN ReturnsStr("C-")
    ELSE ReturnsStr("F")

get_grade_letter(percentage) ==
    IF GreaterEq(percentage, Number(90)) THEN ReturnsStr("A+")
    ELSE IF GreaterEq(percentage, Number(85)) THEN ReturnsStr("A")
    ELSE IF GreaterEq(percentage, Number(80)) THEN ReturnsStr("A-")
    ELSE IF GreaterEq(percentage, Number(75)) THEN ReturnsStr("B+")
    ELSE IF GreaterEq(percentage, Number(70)) THEN ReturnsStr("B")
    ELSE IF GreaterEq(percentage, Number(65)) THEN ReturnsStr("B-")
    ELSE IF GreaterEq(percentage, Number(60)) THEN ReturnsStr("C+")
    ELSE IF GreaterEq(percentage, Number(55)) THEN ReturnsStr("C")
    ELSE IF GreaterEq(percentage, Number(50)) THEN ReturnsStr("C-")
    ELSE ReturnsStr("F")

\* as calculate_completion_rate, but counting the pending entries
calculate_completion_rate_Pending(assignments_df) ==
    IF IsEmpty(assignments_df) THEN Returns(Number(0))
    ELSE IF "status" \notin assignments_df.columns THEN Raises("KeyError")
    ELSE LET completed == Len(Where(assignments_df, "status", "pending").rows)
             total == Len(assignments_df.rows)
         IN IF total > 0
            THEN Returns(Mul(Div(Number(completed), Number(total)), Number(100)))
            ELSE Returns(Number(0))

calculate_completion_rate(assignments_df) ==
    IF IsEmpty(assignments_df) THEN Returns(Number(0))
    ELSE IF "status" \notin assignments_df.columns THEN Raises("KeyError")
    ELSE LET completed == Len(Where(assignments_df, "status", "completed").rows)
             total == Len(assignments_df.rows)
         IN IF total > 0
            THEN Returns(Mul(Div(Number(completed), Number(total)), Number(100)))
            ELSE Returns(Number(0))

\* pandas dates: a Timestamp and a weekly Period (Monday to Sunday) are written
\* as pandas prints them; the dates of the model are listed with the week each
\* lies in, and any other string is no date
DateTable ==
    << [date |-> "2025-01-20", timestamp |-> "2025-01-20 00:00:00", week |-> "2025-01-20/2025-01-26"],
       [date |-> "2025-01-22", timestamp |-> "2025-01-22 00:00:00", week |-> "2025-01-20/2025-01-26"],
       [date |-> "2025-01-27", timestamp |-> "2025-01-27 00:00:00", week |-> "2025-01-27/2025-02-02"] >>

IsDate(str) == \E i \in 1..Len(DateTable) : DateTable[i].date = str

\* pd.to_datetime(str), for a date
to_datetime(str) == DateTable[CHOOSE i \in 1..Len(DateTable) : DateTable[i].date = str].timestamp

\* timestamp.to_period('W')
to_period_W(timestamp) ==
    DateTable[CHOOSE i \in 1..Len(DateTable) : DateTable[i].timestamp = timestamp].week

\* the weeks in ascending order, as groupby sorts its keys
RECURSIVE WeeksFrom(_)
WeeksFrom(i) ==
    IF i > Len(DateTable) THEN <<>>
    ELSE IF \E j \in 1..(i - 1) : DateTable[j].week = DateTable[i].week
         THEN WeeksFrom(i + 1)
         ELSE <<DateTable[i].week>> \o WeeksFrom(i + 1)

Weeks == WeeksFrom(1)

\* row with the value v in column: NaN stays NaN, so a row without due_date is
\* left as it is
RowWith(row, column, v) ==
    IF "due_date" \in DOMAIN row
    THEN [k \in (DOMAIN row) \cup {column} |-> IF k = column THEN v ELSE row[k]]
    ELSE row

\* assignments_df['due_date'] = pd.to_datetime(assignments_df['due_date'])
WithTimestamps(df) ==
    [columns |-> df.columns \cup {"due_date"},
     rows |-> [i \in 1..Len(df.rows) |->
                  RowWith(df.rows[i], "due_date", to_datetime(df.rows[i].due_date))]]

\* assignments_df['week'] = assignments_df['due_date'].dt.to_period('W')
WithWeeks(df) ==
    [columns |-> df.columns \cup {"week"},
     rows |-> [i \in 1..Len(df.rows) |->
                  RowWith(df.rows[i], "week", to_period_W(df.rows[i].due_date))]]

\* get_weekly_workload assigns to two columns of the table it is given: the
\* table as the call leaves it
TableAfter_get_weekly_workload(assignments_df) ==
    IF IsEmpty(assignments_df) THEN assignments_df
    ELSE IF "due_date" \notin assignments_df.columns THEN assignments_df
    ELSE IF \E i \in 1..Len(assignments_df.rows) :
               /\ "due_date" \in DOMAIN assignments_df.rows[i]
               /\ ~IsDate(assignments_df.rows[i].due_date)
    THEN assignments_df
    ELSE WithWeeks(WithTimestamps(assignments_df))

\* df.groupby('week').agg({'title': 'count', 'status': pending}).rename(...)
\* .reset_index(): one row for each week that occurs, in ascending order
RECURSIVE WeeklySummary(_, _)
WeeklySummary(df, weeks) ==
    IF weeks = <<>> THEN <<>>
    ELSE LET of_week == Where(df, "week", Head(weeks)).rows
             titled == SelectSeq(of_week, LAMBDA row : "title" \in DOMAIN row)
             pending == SelectSeq(of_week, LAMBDA row :
                                     "status" \in DOMAIN row /\ row.status = "pending")
         IN (IF of_week = <<>> THEN <<>>
             ELSE << [week |-> Head(weeks), total_assignments |-> Len(titled),
                      pending_assignments |-> Len(pending)] >>)
            \o WeeklySummary(df, Tail(weeks))

ReturnsTable(df) == [kind |-> "table", n |-> 0, d |-> 1, s |-> "", table |-> df]

get_weekly_workload(assignments_df) ==
    IF IsEmpty(assignments_df) THEN ReturnsTable(EmptyDataFrame({}))
    ELSE IF "due_date" \notin assignments_df.columns THEN Raises("KeyError")
    ELSE IF \E i \in 1..Len(assignments_df.rows) :
               /\ "due_date" \in DOMAIN assignments_df.rows[i]
               /\ ~IsDate(assignments_df.rows[i].due_date)
    THEN Raises("ValueError")
    ELSE IF ~({"title", "status"} \subseteq assignments_df.columns) THEN Raises("KeyError")
    ELSE LET table == TableAfter_get_weekly_workload(assignments_df)
         IN ReturnsTable([columns |-> {"week", "total_assignments", "pending_assignments"},
                          rows |-> WeeklySummary(table, Weeks)])

-----------------------------------------------------------------------------
(* Properties of the record store.                                         *)

\* lst without the element at Python index index
RemovedAt(lst, index) == SubSeq(lst, 1, index) \o SubSeq(lst, index + 2, Len(lst))

\* the records of lst whose course_code is not code, in their order
OfOtherCourses(lst, code) == SelectSeq(lst, LAMBDA r : r.course_code # code)

\* indices out of range for a list of n elements
OutOfRange(n) == {-2, -1, n, n + 1}

\* C1: in every state of the store and for every index in range,
\* delete_course(index) leaves courses without the element at index, and leaves
\* of carry_marks, assignments and final_exams exactly the records of the other
\* course codes, in their order.
C1_DeleteCourseCascades ==
    IsInitialized =>
        \A index \in 0..(Len(session_state.courses) - 1) :
            LET code == session_state.courses[index + 1].code
                after == StateAfter_delete_course(session_state, index)
            IN /\ after.courses = RemovedAt(session_state.courses, index)
               /\ after.carry_marks = OfOtherCourses(session_state.carry_marks, code)
               /\ after.assignments = OfOtherCourses(session_state.assignments, code)
               /\ after.final_exams = OfOtherCourses(session_state.final_exams, code)
               /\ DOMAIN after = DOMAIN session_state
               /\ after.theme_color = session_state.theme_color

\* a course whose deletion removes its carry mark and one assignment and keeps
\* the assignment of another course
C1_Witness ==
    /\ IsInitialized
    /\ \E index \in 0..(Len(session_state.courses) - 1) :
          LET code == session_state.courses[index + 1].code
          IN /\ session_state.carry_marks # <<>>
             /\ OfOtherCourses(session_state.carry_marks, code) = <<>>
             /\ Len(session_state.assignments) = 2
             /\ Len(OfOtherCourses(session_state.assignments, code)) = 1

\* C2: in every state of the store, update_course, delete_course,
\* update_assignment_status and delete_assignment with an index out of range
\* (negative, or at least the length of the list) change nothing; deleting the
\* last course and then deleting at the same index again changes nothing the
\* second time.
C2_OutOfRangeIsNoOp ==
    IsInitialized =>
        /\ \A index \in OutOfRange(Len(session_state.courses)) :
              /\ StateAfter_delete_course(session_state, index) = session_state
              /\ \A course_data \in CourseInputs :
                    StateAfter_update_course(session_state, index, course_data) = session_state
        /\ \A index \in OutOfRange(Len(session_state.assignments)) :
              /\ StateAfter_delete_assignment(session_state, index) = session_state
              /\ \A new_status \in Statuses :
                    StateAfter_update_assignment_status(session_state, index, new_status)
                        = session_state
        /\ Len(session_state.courses) > 0 =>
              LET last == Len(session_state.courses) - 1
                  once == StateAfter_delete_course(session_state, last)
              IN StateAfter_delete_course(once, last) = once

\* lists in which a negative Python index would address an element
C2_Witness ==
    /\ IsInitialized
    /\ Len(session_state.courses) >= 2
    /\ Len(session_state.assignments) >= 2
    /\ session_state.carry_marks # <<>>

\* C3: no two courses of the store have the same code.
C3_CourseCodesUnique ==
    IsInitialized =>
        \A i, j \in 1..Len(session_state.courses) :
            i # j => session_state.courses[i].code # session_state.courses[j].code

\* C4: the first initialize_session_state leaves the default courses and empty
\* carry_marks, assignments and final_exams; on an initialized session, whatever
\* the store's operations have made of it, it changes nothing.
C4_InitializedOnce ==
    LET after == StateAfter_initialize_session_state(session_state)
    IN /\ ~IsInitialized =>
             /\ after.courses = get_default_courses
             /\ after.carry_marks = <<>>
             /\ after.assignments = <<>>
             /\ after.final_exams = <<>>
       /\ IsInitialized => after = session_state

\* an initialized session every course of which has been deleted
C4_Witness ==
    /\ IsInitialized
    /\ session_state.courses = <<>>
    /\ session_state.carry_marks # <<>>

-----------------------------------------------------------------------------
(* The calculator: each action calls one function on inputs of the model   *)
(* and records the call and what it returned.                              *)

\* lists of at most n elements of S
SeqsUpTo(S, n) == UNION {[1..k -> S] : k \in 0..n}

\* percentages from -10 to MaxHalfPoints / 2 in steps of one half
Percentages == {Frac(h, 2) : h \in (-20)..MaxHalfPoints}

TargetGrades == {Number(0), Number(50), Number(70), Number(100)}
CarryPercentages == {Number(0), Number(80), Frac(260, 3), Number(100)}
Weights == {Number(0), Number(40), Number(60), Number(100)}

\* carry-mark entries of two courses, with and without final_contribution
CalcCarryMarks ==
    { [course_code |-> "BSD 1323", earned |-> 8, max_possible |-> 10, weight_percentage |-> 10],
      [course_code |-> "BSD 1323", earned |-> 18, max_possible |-> 20, weight_percentage |-> 20],
      [course_code |-> "BSD 1323", earned |-> 0, max_possible |-> 0, weight_percentage |-> 10],
      [course_code |-> "BSD 1323", earned |-> 8, max_possible |-> 10, weight_percentage |-> 50,
       final_contribution |-> 5],
      [course_code |-> "BSD 2143", earned |-> 18, max_possible |-> 20, weight_percentage |-> 20],
      [course_code |-> "BSD 2143", earned |-> 8, max_possible |-> 10, weight_percentage |-> 10,
       final_contribution |-> 7] }

\* the codes asked for: two courses with entries, and one without
CalcCourseCodes == {"BSD 1323", "BSD 2143", "BUM 2413"}

\* course lists: none, the default courses, one course, and the first default
\* course behind a course of its code with another weight
CalcCourses ==
    { <<>>, get_default_courses, <<get_default_courses[2]>>,
      <<[code |-> "BSD 1323", name |-> "Data Storytelling", carry_weight |-> 50, exam_weight |-> 50],
        get_default_courses[1]>> }

CalcAssignments ==
    { [title |-> "Report", status |-> "pending"], [title |-> "Report", status |-> "completed"] }

\* assignments of two weeks, and one whose due_date is no date
CalcDatedAssignments ==
    { [title |-> "Report", due_date |-> "2025-01-20", status |-> "pending"],
      [title |-> "Quiz", due_date |-> "2025-01-22", status |-> "completed"],
      [title |-> "Worksheet", due_date |-> "2025-01-27", status |-> "pending"],
      [title |-> "Essay", due_date |-> "next week", status |-> "pending"] }

\* the calls of the model: a function of the calculator and its arguments;
\* get_weekly_workload is given a list of assignments and the table
\* get_assignments_df makes of it
Calls ==
    [call : {"get_grade_letter"}, args : {<<percentage>> : percentage \in Percentages}]
    \cup [call : {"calculate_final_exam_requirement"},
          args : TargetGrades \X CarryPercentages \X Weights \X Weights]
    \cup [call : {"calculate_carry_percentage"},
          args : CalcCourseCodes \X SeqsUpTo(CalcCarryMarks, MaxCalcMarks)]
    \cup [call : {"calculate_current_grade"},
          args : CalcCourseCodes \X SeqsUpTo(CalcCarryMarks, MaxCalcMarks) \X CalcCourses]
    \cup [call : {"calculate_completion_rate"},
          args : {<<assignments>> : assignments \in SeqsUpTo(CalcAssignments, MaxCalcAssignments)}]
    \cup [call : {"get_weekly_workload"},
          args : {<<assignments, get_assignments_df(assignments)>> :
                     assignments \in SeqsUpTo(CalcDatedAssignments, MaxCalcAssignments)}]

InitCalc ==
    /\ session_state = [key \in {} |-> <<>>]
    /\ \E c \in Calls : call = c.call /\ args = c.args
    /\ result = NoResult

call_get_grade_letter ==
    /\ call = "get_grade_letter"
    /\ result = NoResult
    /\ result' = get_grade_letter(args[1])
    /\ UNCHANGED <<session_state, call, args>>

call_calculate_final_exam_requirement ==
    /\ call = "calculate_final_exam_requirement"
    /\ result = NoResult
    /\ result' = calculate_final_exam_requirement(args[1], args[2], args[3], args[4])
    /\ UNCHANGED <<session_state, call, args>>

\* the tables the calculator is given are those of get_carry_marks_df,
\* get_courses_df and get_assignments_df
call_calculate_carry_percentage ==
    /\ call = "calculate_carry_percentage"
    /\ result = NoResult
    /\ result' = calculate_carry_percentage(args[1], get_carry_marks_df(args[2]))
    /\ UNCHANGED <<session_state, call, args>>

call_calculate_current_grade ==
    /\ call = "calculate_current_grade"
    /\ result = NoResult
    /\ result' = calculate_current_grade(args[1], get_carry_marks_df(args[2]),
                                         get_courses_df(args[3]))
    /\ UNCHANGED <<session_state, call, args>>

call_calculate_completion_rate ==
    /\ call = "calculate_completion_rate"
    /\ result = NoResult
    /\ result' = calculate_completion_rate(get_assignments_df(args[1]))
    /\ UNCHANGED <<session_state, call, args>>

\* args[2] is the table the function is given; the call leaves it as
\* the function's assignments to its columns make it
call_get_weekly_workload ==
    /\ call = "get_weekly_workload"
    /\ result = NoResult
    /\ result' = get_weekly_workload(args[2])
    /\ args' = <<args[1], TableAfter_get_weekly_workload(args[2])>>
    /\ UNCHANGED <<session_state, call>>

NextCalc ==
    \/ call_get_grade_letter
    \/ call_calculate_final_exam_requirement
    \/ call_calculate_carry_percentage
    \/ call_calculate_current_grade
    \/ call_calculate_completion_rate
    \/ call_get_weekly_workload

SpecCalc == InitCalc /\ [][NextCalc]_vars

-----------------------------------------------------------------------------
(* Properties of the calculator.                                           *)

Returned(function) == call = function /\ result # NoResult

Less(a, b) == ~GreaterEq(a, b)

\* lo <= p < hi
Within(p, lo, hi) == GreaterEq(p, Number(lo)) /\ Less(p, Number(hi))

\* C5: get_grade_letter returns A+ from 90 up (above 100 too), A in [85, 90),
\* A- in [80, 85), B+ in [75, 80), B in [70, 75), B- in [65, 70), C+ in [60, 65),
\* C in [55, 60), C- in [50, 55) and F below 50, negative percentages included.
C5_GradeLetterTable ==
    Returned("get_grade_letter") =>
        LET p == args[1]
        IN /\ result.kind = "str"
           /\ GreaterEq(p, Number(90)) => result.s = "A+"
           /\ Within(p, 85, 90) => result.s = "A"
           /\ Within(p, 80, 85) => result.s = "A-"
           /\ Within(p, 75, 80) => result.s = "B+"
           /\ Within(p, 70, 75) => result.s = "B"
           /\ Within(p, 65, 70) => result.s = "B-"
           /\ Within(p, 60, 65) => result.s = "C+"
           /\ Within(p, 55, 60) => result.s = "C"
           /\ Within(p, 50, 55) => result.s = "C-"
           /\ Less(p, Number(50)) => result.s = "F"

\* the boundary 85 has returned A
C5_Witness ==
    Returned("get_grade_letter") /\ args[1] = Number(85) /\ result.s = "A"

EntriesOf(carry_marks, course_code) ==
    SelectSeq(carry_marks, LAMBDA e : e.course_code = course_code)

Total(entries, field) ==
    LET upto[k \in 0..Len(entries)] ==
            IF k = 0 THEN 0 ELSE upto[k - 1] + entries[k][field]
    IN upto[Len(entries)]

HasContribution(entry) == "final_contribution" \in DOMAIN entry

\* C7: calculate_carry_percentage returns 0 when no entry of carry_marks (an
\* empty list included) is of the course or their max_possible sum to 0, and
\* otherwise 100 * (sum of earned) / (sum of max_possible) over the entries of
\* the course, whatever the other entries and the weights are.
C7_CarryPercentage ==
    Returned("calculate_carry_percentage") =>
        LET entries == EntriesOf(args[2], args[1])
            earned == Total(entries, "earned")
            max_possible == Total(entries, "max_possible")
        IN /\ result.kind = "number"
           /\ ValueOf(result) =
                 IF max_possible = 0 THEN Number(0) ELSE Frac(100 * earned, max_possible)

\* 8 of 10 and 18 of 20 beside an entry of another course: 2600 / 30
C7_Witness ==
    /\ Returned("calculate_carry_percentage")
    /\ Len(args[2]) = 3
    /\ Len(EntriesOf(args[2], args[1])) = 2
    /\ Total(EntriesOf(args[2], args[1]), "earned") = 26
    /\ Total(EntriesOf(args[2], args[1]), "max_possible") = 30
    /\ ValueOf(result) = Frac(260, 3)

CourseExists(courses, course_code) ==
    \E i \in 1..Len(courses) : courses[i].code = course_code

\* C8: for a course of courses with an entry that has final_contribution,
\* calculate_current_grade returns the sum of final_contribution over the entries
\* of the course that have it, also when other entries of the course have none.
C8_ContributionPath ==
    Returned("calculate_current_grade") =>
        LET entries == EntriesOf(args[2], args[1])
        IN (/\ CourseExists(args[3], args[1])
            /\ \E i \in 1..Len(entries) : HasContribution(entries[i]))
           => /\ result.kind = "number"
              /\ ValueOf(result) =
                    Number(Total(SelectSeq(entries, HasContribution), "final_contribution"))

\* a course with an entry that has final_contribution and one that has none
C8_Witness ==
    /\ Returned("calculate_current_grade")
    /\ CourseExists(args[3], args[1])
    /\ LET entries == EntriesOf(args[2], args[1])
       IN /\ \E i \in 1..Len(entries) : HasContribution(entries[i])
          /\ \E i \in 1..Len(entries) : ~HasContribution(entries[i])
    /\ ValueOf(result) = Number(5)

\* C9: calculate_current_grade returns 0 when the course is not in courses or has
\* no entry in carry_marks; for a course of courses with entries none of which
\* has final_contribution it returns the carry percentage of the course times
\* the carry_weight of the course / 100, whatever the entries of other courses hold.
C9_FallbackPath ==
    Returned("calculate_current_grade") =>
        LET course_code == args[1]
            carry_marks == args[2]
            courses == args[3]
            entries == EntriesOf(carry_marks, course_code)
            course == courses[CHOOSE i \in 1..Len(courses) :
                                 /\ courses[i].code = course_code
                                 /\ \A j \in 1..(i - 1) : courses[j].code # course_code]
            max_possible == Total(entries, "max_possible")
            carry_percentage ==
                IF max_possible = 0 THEN Number(0)
                ELSE Frac(100 * Total(entries, "earned"), max_possible)
        IN /\ (~CourseExists(courses, course_code) \/ entries = <<>>)
              => result = Returns(Number(0))
           /\ (/\ CourseExists(courses, course_code)
               /\ entries # <<>>
               /\ \A i \in 1..Len(entries) : ~HasContribution(entries[i]))
              => result = Returns(Div(Mul(carry_percentage, Number(course.carry_weight)),
                                      Number(100)))

\* C10: calculate_completion_rate returns 0 for no assignment and otherwise
\* 100 * (entries with status completed) / (entries); the result lies in
\* [0, 100]; two completed and two pending entries give 50.
C10_CompletionRate ==
    Returned("calculate_completion_rate") =>
        LET assignments == args[1]
            completed == Len(SelectSeq(assignments, LAMBDA a : a.status = "completed"))
            pending == Len(SelectSeq(assignments, LAMBDA a : a.status = "pending"))
        IN /\ result.kind = "number"
           /\ assignments = <<>> => ValueOf(result) = Number(0)
           /\ assignments # <<>> =>
                 ValueOf(result) = Frac(100 * completed, Len(assignments))
           /\ GreaterEq(ValueOf(result), Number(0))
           /\ GreaterEq(Number(100), ValueOf(result))
           /\ (completed = 2 /\ pending = 2 /\ Len(assignments) = 4) =>
                 ValueOf(result) = Number(50)

\* two completed and two pending entries
C10_Witness ==
    /\ Returned("calculate_completion_rate")
    /\ Len(args[1]) = 4
    /\ Len(SelectSeq(args[1], LAMBDA a : a.status = "completed")) = 2
    /\ ValueOf(result) = Number(50)

\* C11: a call of the calculator leaves the table it is given with the columns
\* and the values it had: after get_weekly_workload(assignments_df) the table is
\* still the one get_assignments_df made, due_date the date strings and no
\* column week.
C11_ArgumentUnchanged ==
    Returned("get_weekly_workload") =>
        /\ args[2].columns = get_assignments_df(args[1]).columns
        /\ "week" \notin args[2].columns
        /\ \A i \in 1..Len(args[1]) : args[2].rows[i].due_date = args[1][i].due_date
        /\ args[2] = get_assignments_df(args[1])

-----------------------------------------------------------------------------
(* Assignments, and the references of the records to the courses.           *)

\* C12: in every state of the store and for every index of an assignment,
\* update_assignment_status sets the status of that assignment and changes
\* nothing else of it, no other assignment, and neither the length nor the
\* order of assignments; delete_assignment removes that assignment and keeps the
\* others in order; both leave courses, carry_marks and final_exams as they were.
C12_AssignmentOpsAreLocal ==
    IsInitialized =>
        \A index \in 0..(Len(session_state.assignments) - 1) :
            LET before == session_state.assignments
                deleted == StateAfter_delete_assignment(session_state, index)
            IN /\ \A new_status \in Statuses :
                     LET updated ==
                             StateAfter_update_assignment_status(session_state, index, new_status)
                     IN /\ Len(updated.assignments) = Len(before)
                        /\ updated.assignments[index + 1].status = new_status
                        /\ DOMAIN updated.assignments[index + 1] = DOMAIN before[index + 1]
                        /\ \A k \in (DOMAIN before[index + 1]) \ {"status"} :
                              updated.assignments[index + 1][k] = before[index + 1][k]
                        /\ \A j \in 1..Len(before) :
                              j # index + 1 => updated.assignments[j] = before[j]
                        /\ \A key \in SessionKeys \ {"assignments"} :
                              updated[key] = session_state[key]
               /\ deleted.assignments = RemovedAt(before, index)
               /\ \A key \in SessionKeys \ {"assignments"} :
                     deleted[key] = session_state[key]

\* two assignments that differ, beside a carry mark
C12_Witness ==
    /\ IsInitialized
    /\ Len(session_state.assignments) = 2
    /\ session_state.assignments[1] # session_state.assignments[2]
    /\ session_state.carry_marks # <<>>

\* a course of the store has this code
HasCourse(course_code) ==
    \E i \in 1..Len(session_state.courses) : session_state.courses[i].code = course_code

\* the store's operations, with add_carry_mark and add_assignment called only for
\* the code of a course of the store, and update_course only with the code of
\* the course it replaces
NextReferential ==
    \/ initialize_session_state
    \/ \E course_data \in CourseInputs : add_course(course_data)
    \/ \E index \in Indices(LenOf("courses")), course_data \in CourseInputs :
          /\ (0 <= index /\ index < LenOf("courses"))
                => session_state.courses[index + 1].code = course_data.code
          /\ update_course(index, course_data)
    \/ \E index \in Indices(LenOf("courses")) : delete_course(index)
    \/ \E carry_data \in CarryInputs, today \in Dates :
          /\ IsInitialized
          /\ HasCourse(carry_data.course_code)
          /\ add_carry_mark(carry_data, today)
    \/ \E assignment_data \in AssignmentInputs :
          /\ IsInitialized
          /\ HasCourse(assignment_data.course_code)
          /\ add_assignment(assignment_data)
    \/ \E index \in Indices(LenOf("assignments")), new_status \in Statuses :
          update_assignment_status(index, new_status)
    \/ \E index \in Indices(LenOf("assignments")) : delete_assignment(index)

SpecReferential == Init /\ [][NextReferential]_vars

\* C13: when carry marks and assignments are only added for the code of a course
\* of the store and update_course keeps the code of the course it replaces, the
\* course_code of every carry mark, assignment and final-exam record is the code
\* of a course of the store.
C13_NoOrphanRecord ==
    IsInitialized =>
        \A key \in {"carry_marks", "assignments", "final_exams"} :
            \A i \in 1..Len(session_state[key]) :
                HasCourse(session_state[key][i].course_code)

\* the first default course is deleted, and a carry mark and an assignment of
\* another course are left
C13_Witness ==
    /\ IsInitialized
    /\ ~HasCourse("BSD 1323")
    /\ session_state.carry_marks # <<>>
    /\ session_state.assignments # <<>>

====
